---- MODULE Spec2Model ----
(***************************************************************************)
(* State-machine model of the PCX reader of SDL_image (src/src/IMG_pcx.c): *)
(* IMG_isPCX (the probe) and IMG_LoadPCX_IO (the decoder), over a seekable *)
(* byte stream.  Bytes are integers 0..255, C indices are 0-based and      *)
(* sequences 1-based, so buf[i] of the C code is buf[i + 1] here.          *)
(***************************************************************************)
EXTENDS Integers, Sequences, FiniteSets, TLC

(***************************************************************************)
(* Bounds of the explored inputs.                                          *)
(***************************************************************************)
MaxProbes == 2
MaxHeight == 2
MaxPlaneBytes == 2

(***************************************************************************)
(* Program constants.                                                      *)
(***************************************************************************)
HeaderSize == 128
ColormapBytes == 768
PaletteMarker == 12
RunFlag == 192
ZSoft_Manufacturer == 10
PC_Paintbrush_Version == 5
PCX_Uncompressed_Encoding == 0
PCX_RunLength_Encoding == 1

Min(a, b) == IF a < b THEN a ELSE b
Max(a, b) == IF a > b THEN a ELSE b

RECURSIVE Pow2(_)
Pow2(n) == IF n = 0 THEN 1 ELSE 2 * Pow2(n - 1)

\* n copies of the byte v
Rep(n, v) == [k \in 1..n |-> v]

(***************************************************************************)
(* The on-disk header: struct PCXheader, 128 bytes, 16-bit fields          *)
(* little-endian.  MkHeader writes a header from field values (the         *)
(* producer's side); ParseHeader is what the decoder reads back.           *)
(***************************************************************************)
LoByte(v) == (v % 65536) % 256
HiByte(v) == (v % 65536) \div 256

\* a signed 16-bit field from its two bytes, low byte first (SDL_Swap16LE)
Sint16LE(lo, hi) ==
    LET u == lo + 256 * hi
    IN  IF u >= 32768 THEN u - 65536 ELSE u

MkHeader(d) ==
    [k \in 1..HeaderSize |->
        LET o == k - 1
        IN  CASE o = 0 -> d.man
              [] o = 1 -> d.ver
              [] o = 2 -> d.enc
              [] o = 3 -> d.bpp
              [] o = 4 -> LoByte(d.xmin)
              [] o = 5 -> HiByte(d.xmin)
              [] o = 6 -> LoByte(d.ymin)
              [] o = 7 -> HiByte(d.ymin)
              [] o = 8 -> LoByte(d.xmax)
              [] o = 9 -> HiByte(d.xmax)
              [] o = 10 -> LoByte(d.ymax)
              [] o = 11 -> HiByte(d.ymax)
              [] o \in 16..63 -> d.cmap[o - 15]
              [] o = 65 -> d.np
              [] o = 66 -> LoByte(d.bytesPerLine)
              [] o = 67 -> HiByte(d.bytesPerLine)
              [] OTHER -> 0]

ParseHeader(h) ==
    [ Manufacturer |-> h[1],
      Version      |-> h[2],
      Encoding     |-> h[3],
      BitsPerPixel |-> h[4],
      Xmin         |-> Sint16LE(h[5], h[6]),
      Ymin         |-> Sint16LE(h[7], h[8]),
      Xmax         |-> Sint16LE(h[9], h[10]),
      Ymax         |-> Sint16LE(h[11], h[12]),
      Colormap     |-> SubSeq(h, 17, 64),
      NPlanes      |-> h[66],
      BytesPerLine |-> Sint16LE(h[67], h[68]) ]

NoHeader ==
    [ Manufacturer |-> 0, Version |-> 0, Encoding |-> 0, BitsPerPixel |-> 0,
      Xmin |-> 0, Ymin |-> 0, Xmax |-> 0, Ymax |-> 0, Colormap |-> <<>>,
      NPlanes |-> 0, BytesPerLine |-> 0 ]

(***************************************************************************)
(* The stream primitives the reader uses.                                  *)
(***************************************************************************)
\* SDL_ReadIO(src, ptr, n): the bytes delivered and the cursor afterwards;
\* a short read delivers what is left and leaves the cursor at the end.
ReadIO(s, p, n) ==
    LET got == Max(0, Min(n, Len(s) - p))
    IN  [ bytes |-> SubSeq(s, p + 1, p + got), pos |-> p + got ]

\* SDL_SeekIO(src, off, SDL_IO_SEEK_SET) and (.., SDL_IO_SEEK_END): the new
\* cursor, kept inside the stream.
SeekSet(s, off) == Max(0, Min(off, Len(s)))
SeekEnd(s, off) == Max(0, Min(Len(s) + off, Len(s)))

(***************************************************************************)
(* State.                                                                  *)
(*   input    the description the stream was built from (never changed)    *)
(*   src      FALSE for a null stream handle                               *)
(*   stream   the bytes of the stream; pos, its cursor                     *)
(*   pc       where the caller / IMG_LoadPCX_IO stands                     *)
(*   start .. result   the locals of IMG_LoadPCX_IO and its return value   *)
(*   surface, pitch, pixels, ncolors, colors   the SDL_Surface             *)
(* History variables (read by no guard and no assignment of the program):  *)
(*   probes, probePos   results of the consecutive IMG_isPCX calls and the *)
(*                      cursor before the first of them                    *)
(*   rowPos, rowCount, rowCh   cursor, count and ch when the quota of the  *)
(*                      last run-length decoded row was filled             *)
(*   reads, writes      the buf indices read, and the <<plane, offset>>    *)
(*                      row offsets written, by the last row reconstruction*)
(***************************************************************************)
VARIABLES input, src, stream, pos, pc,
          start, pcxh, width, height, src_bits, bits, format,
          surface, pitch, pixels, ncolors, colors,
          bufp, buf, bpl, y, i, count, ch, error, result,
          probes, probePos, rowPos, rowCount, rowCh, reads, writes

vars == << input, src, stream, pos, pc,
           start, pcxh, width, height, src_bits, bits, format,
           surface, pitch, pixels, ncolors, colors,
           bufp, buf, bpl, y, i, count, ch, error, result,
           probes, probePos, rowPos, rowCount, rowCh, reads, writes >>

streamVars  == << input, src, stream >>
headerVars  == << start, pcxh >>
layoutVars  == << width, height, src_bits, bits, format >>
surfaceVars == << surface, pitch, pixels >>
paletteVars == << ncolors, colors >>
bufVars     == << bufp, buf, bpl >>
runVars     == << count, ch >>
rowHist     == << rowPos, rowCount, rowCh >>
accessHist  == << reads, writes >>
probeHist   == << probes, probePos >>

(***************************************************************************)
(* IMG_isPCX                                                               *)
(***************************************************************************)
\* the header test of IMG_isPCX
IsPCXHeader(h) ==
    /\ h.Manufacturer = ZSoft_Manufacturer
    /\ h.Version = PC_Paintbrush_Version
    /\ (h.Encoding = PCX_RunLength_Encoding \/ h.Encoding = PCX_Uncompressed_Encoding)

\* (variant: the probe without its final seek)
ProbeCursor_NoSeek(s, st, cur) == cur

\* the cursor IMG_isPCX leaves: SDL_SeekIO(src, start, SDL_IO_SEEK_SET)
ProbeCursor(s, st, cur) == SeekSet(s, st)

IMG_isPCX ==
    /\ pc \in {"idle", "returned"}
    /\ Len(probes) < MaxProbes
    /\ IF ~src
       THEN /\ probes' = Append(probes, FALSE)
            /\ pos' = pos
       ELSE LET st == pos
                r  == ReadIO(stream, pos, HeaderSize)
                is_PCX == /\ Len(r.bytes) = HeaderSize
                          /\ IsPCXHeader(ParseHeader(r.bytes))
            IN  /\ probes' = Append(probes, is_PCX)
                /\ pos' = ProbeCursor(stream, st, r.pos)
    /\ UNCHANGED << streamVars, pc, headerVars, layoutVars, surfaceVars,
                    paletteVars, bufVars, y, i, runVars, error, result,
                    probePos, rowHist, accessHist >>

(***************************************************************************)
(* IMG_LoadPCX_IO, step by step                                            *)
(***************************************************************************)
\* entry: null check, SDL_TellIO, the header read and the 16-bit swaps
LoadHeader ==
    /\ pc = "idle"
    /\ probes' = <<>>
    /\ IF ~src
       THEN /\ result' = "NULL"
            /\ pc' = "returned"
            /\ UNCHANGED << pos, start, pcxh, error >>
       ELSE LET r == ReadIO(stream, pos, HeaderSize)
            IN  /\ start' = pos
                /\ pos' = r.pos
                /\ result' = result
                /\ IF Len(r.bytes) # HeaderSize
                   THEN /\ error' = "file truncated"
                        /\ pc' = "done"
                        /\ pcxh' = pcxh
                   ELSE /\ pcxh' = ParseHeader(r.bytes)
                        /\ pc' = "classify"
                        /\ error' = error
    /\ UNCHANGED << streamVars, layoutVars, surfaceVars, paletteVars, bufVars,
                    y, i, runVars, probePos, rowHist, accessHist >>

\* (variant: the 24-bit test without its upper bound on the planes)
LayoutBits_FourPlanes(bpp, np) ==
    IF (bpp = 1 /\ np >= 1 /\ np <= 4) \/ (bpp = 8 /\ np = 1) THEN 8
    ELSE IF bpp = 8 /\ np >= 3 THEN 24
    ELSE 0

\* the output depth chosen for a (BitsPerPixel, NPlanes) pair; 0: unsupported
LayoutBits(bpp, np) ==
    IF (bpp = 1 /\ np >= 1 /\ np <= 4) \/ (bpp = 8 /\ np = 1) THEN 8
    ELSE IF bpp = 8 /\ np = 3 THEN 24
    ELSE 0

Classify ==
    /\ pc = "classify"
    /\ width' = (pcxh.Xmax - pcxh.Xmin) + 1
    /\ height' = (pcxh.Ymax - pcxh.Ymin) + 1
    /\ src_bits' = pcxh.BitsPerPixel * pcxh.NPlanes
    /\ LET b == LayoutBits(pcxh.BitsPerPixel, pcxh.NPlanes)
       IN  IF b = 8
           THEN bits' = 8 /\ format' = "INDEX8" /\ pc' = "create" /\ error' = error
           ELSE IF b = 24
           THEN bits' = 24 /\ format' = "RGB24" /\ pc' = "create" /\ error' = error
           ELSE /\ error' = "unsupported PCX format"
                /\ pc' = "done"
                /\ UNCHANGED << bits, format >>
    /\ UNCHANGED << streamVars, pos, headerVars, surfaceVars, paletteVars,
                    bufVars, y, i, runVars, result, probeHist, rowHist,
                    accessHist >>

\* the row stride of a surface of w pixels of bpp bits
Pitch(w, bpp) == (((w * (bpp \div 8)) + 3) \div 4) * 4

\* where the row loop goes with row yy next
RowLoop(yy) ==
    IF yy < height THEN "scan"
    ELSE IF bits = 8 THEN "palette"
    ELSE "done"

\* SDL_CreateSurface: refuses a negative size, may run out of memory, and
\* otherwise gives zeroed pixels.  A failure leaves error unset.
CreateSurface ==
    /\ pc = "create"
    /\ \E ok \in BOOLEAN :
         /\ (width < 0 \/ height < 0) => ~ok
         /\ IF ok
            THEN /\ surface' = "alloc"
                 /\ pitch' = Pitch(width, bits)
                 /\ pixels' = [r \in 1..height |-> Rep(Pitch(width, bits), 0)]
                 /\ pc' = "calloc"
            ELSE /\ pc' = "done"
                 /\ UNCHANGED surfaceVars
    /\ UNCHANGED << streamVars, pos, headerVars, layoutVars, paletteVars,
                    bufVars, y, i, runVars, error, result, probeHist, rowHist,
                    accessHist >>

\* (size_t)v of an int v.  A negative v converts to v + 2^64, a size above
\* every allocation and every length compared with it; it is kept as the
\* negative number it came from and told apart by SizeWrapped.
SizeT(v) == v
SizeWrapped(n) == n < 0

\* bpl = NPlanes * BytesPerLine as a size_t, and the scratch row SDL_calloc
\* gives; a wrapped size is one no allocator can serve
AllocBuf ==
    /\ pc = "calloc"
    /\ LET n == SizeT(pcxh.NPlanes * pcxh.BytesPerLine)
       IN  /\ bpl' = n
           /\ \E ok \in BOOLEAN :
                /\ SizeWrapped(n) => ~ok
                /\ IF ok
                   THEN /\ buf' = Rep(n, 0)
                        /\ bufp' = "alloc"
                        /\ y' = 0
                        /\ i' = 0
                        /\ pc' = RowLoop(0)
                        /\ error' = error
                   ELSE /\ error' = "Out of memory"
                        /\ pc' = "done"
                        /\ UNCHANGED << buf, bufp, y, i >>
    /\ UNCHANGED << streamVars, pos, headerVars, layoutVars, surfaceVars,
                    paletteVars, runVars, result, probeHist, rowHist,
                    accessHist >>

(***************************************************************************)
(* The scanline decoder: one row of bpl bytes into buf.                    *)
(***************************************************************************)
\* raw encoding: one SDL_ReadIO of bpl bytes
ReadRawRow ==
    /\ pc = "scan"
    /\ pcxh.Encoding = 0
    /\ LET r == ReadIO(stream, pos, bpl)
           got == Len(r.bytes)
       IN  /\ pos' = r.pos
           /\ buf' = r.bytes \o SubSeq(buf, got + 1, bpl)
           /\ IF got # bpl
              THEN error' = "file truncated" /\ pc' = "done"
              ELSE error' = error /\ pc' = "pixels"
    /\ UNCHANGED << streamVars, headerVars, layoutVars, surfaceVars,
                    paletteVars, bufp, bpl, y, i, runVars, result, probeHist,
                    rowHist, accessHist >>

\* the repeat count a control byte announces
RunCount(c) == IF c < RunFlag THEN 1 ELSE c - RunFlag

\* the range of the int count
IntMax == 2147483647
IntMin == (0 - IntMax) - 1

\* count--, on an int: below IntMin the decrement is a signed overflow,
\* undefined in C.  A build either wraps to IntMax or traps (the process is
\* aborted inside the call, trap = TRUE, and count keeps its value).
Decrement(c) ==
    IF c > IntMin
    THEN { [ trap |-> FALSE, val |-> c - 1 ] }
    ELSE { [ trap |-> FALSE, val |-> IntMax ], [ trap |-> TRUE, val |-> c ] }

\* run-length encoding: the test and one pass of the body of the loop
\* for ( i = 0; i < bpl; i++ )
\* (pc = "aborted": the process was stopped inside the call, which never
\* returns)
RleStep ==
    /\ pc = "scan"
    /\ pcxh.Encoding # 0
    /\ IF ~(i < bpl)
       THEN /\ pc' = "pixels"
            /\ rowPos' = pos /\ rowCount' = count /\ rowCh' = ch
            /\ UNCHANGED << pos, buf, i, count, ch, error >>
       ELSE IF count # 0
       THEN /\ buf' = [buf EXCEPT ![i + 1] = ch]
            /\ \E d \in Decrement(count) :
                 /\ count' = d.val
                 /\ IF d.trap
                    THEN pc' = "aborted" /\ i' = i
                    ELSE pc' = pc /\ i' = i + 1
            /\ UNCHANGED << pos, ch, error, rowHist >>
       ELSE LET r1 == ReadIO(stream, pos, 1)
            IN  IF Len(r1.bytes) # 1
                THEN /\ error' = "file truncated"
                     /\ pc' = "done"
                     /\ pos' = r1.pos
                     /\ UNCHANGED << buf, i, count, ch, rowHist >>
                ELSE IF r1.bytes[1] < RunFlag
                THEN /\ ch' = r1.bytes[1]
                     /\ count' = RunCount(r1.bytes[1]) - 1
                     /\ buf' = [buf EXCEPT ![i + 1] = r1.bytes[1]]
                     /\ i' = i + 1
                     /\ pos' = r1.pos
                     /\ UNCHANGED << error, pc, rowHist >>
                ELSE LET r2 == ReadIO(stream, r1.pos, 1)
                     IN  IF Len(r2.bytes) # 1
                         THEN /\ error' = "file truncated"
                              /\ pc' = "done"
                              /\ pos' = r2.pos
                              /\ ch' = r1.bytes[1]
                              /\ count' = RunCount(r1.bytes[1])
                              /\ UNCHANGED << buf, i, rowHist >>
                         ELSE /\ ch' = r2.bytes[1]
                              /\ count' = RunCount(r1.bytes[1]) - 1
                              /\ buf' = [buf EXCEPT ![i + 1] = r2.bytes[1]]
                              /\ i' = i + 1
                              /\ pos' = r2.pos
                              /\ UNCHANGED << error, pc, rowHist >>
    /\ UNCHANGED << streamVars, headerVars, layoutVars, surfaceVars,
                    paletteVars, bufp, bpl, y, result, probeHist,
                    accessHist >>

(***************************************************************************)
(* The pixel reconstruction of one row, from buf into pixels[y].           *)
(***************************************************************************)
\* (variant: a row loop that starts every row with no run pending)
NextRow_ResetRun ==
    /\ y' = y + 1
    /\ i' = 0
    /\ pc' = IF y + 1 < height THEN "scan" ELSE IF bits = 8 THEN "palette" ELSE "done"
    /\ count' = 0
    /\ ch' = ch

\* row += surface->pitch and the next pass of for ( y=0; y<surface->h; ++y ):
\* count and ch are declared outside the loop and are not touched
NextRow ==
    /\ y' = y + 1
    /\ i' = 0
    /\ pc' = RowLoop(y + 1)
    /\ count' = count
    /\ ch' = ch

\* buf[k]; outside the allocation the value is not defined by the program
BufAt(k) == IF k >= 0 /\ k < Len(buf) THEN buf[k + 1] ELSE 0

\* row[off] = v, when off is inside the row
RowPut(row, off, v) ==
    IF off >= 0 /\ off < Len(row) THEN [row EXCEPT ![off + 1] = v] ELSE row

\* v | (bit << plane)
OrBit(v, bit, plane) ==
    IF bit = 1 /\ (v \div Pow2(plane)) % 2 = 0 THEN v + Pow2(plane) ELSE v

\* (variant: a plane expansion that skips no bit)
PaddingBit_Never(j, k, w) == FALSE

\* the test "skip padding bits" of the plane expansion
PaddingBit(j, k, w) == j * 8 + k >= w

(***************************************************************************)
(* The plane expansion.  For every plane the loops visit the passes (j, k) *)
(* with j = 0 .. BytesPerLine - 1 and, inside a byte, k = 7 down to 0.  A  *)
(* pass whose padding test holds is skipped; every other pass writes bit k *)
(* of byte j of the plane to row[x] and increments x, which starts at 0 in *)
(* every plane: a pass writes to the column that counts the passes written *)
(* before it.                                                              *)
(***************************************************************************)
Passes == { <<j, k>> : j \in 0..(pcxh.BytesPerLine - 1), k \in 0..7 }
PassBefore(a, b) == a[1] < b[1] \/ (a[1] = b[1] /\ a[2] > b[2])
WrittenPasses == { q \in Passes : ~PaddingBit(q[1], q[2], width) }
ColumnOf(q) == Cardinality({ r \in WrittenPasses : PassBefore(r, q) })
PassAt(c) == CHOOSE q \in WrittenPasses : ColumnOf(q) = c

\* the bit a plane ORs into column c: bit k of byte *innerSrc of the pass
PlaneBitAt(plane, c) ==
    LET q == PassAt(c)
        byte == BufAt(plane * pcxh.BytesPerLine + q[1])
    IN  (byte \div Pow2(q[2])) % 2

\* row[c] after the planes from `plane` on have ORed their bit into it
RECURSIVE OrPlanes(_, _, _)
OrPlanes(v, c, plane) ==
    IF ~(plane < pcxh.NPlanes) THEN v
    ELSE OrPlanes(OrBit(v, PlaneBitAt(plane, c), plane), c, plane + 1)

ExpandPlanes ==
    /\ pc = "pixels"
    /\ src_bits <= 4
    /\ LET n == Cardinality(WrittenPasses)
       IN  /\ pixels' = [pixels EXCEPT ![y + 1] =
                            [c \in 1..Len(@) |->
                                IF c <= n THEN OrPlanes(@[c], c - 1, 0) ELSE @[c]]]
           /\ reads' = [t \in 1..(pcxh.NPlanes * pcxh.BytesPerLine) |-> t - 1]
           /\ writes' = [t \in 1..(pcxh.NPlanes * n) |->
                            << (t - 1) \div n, (t - 1) % n >>]
    /\ NextRow
    /\ UNCHANGED << streamVars, pos, headerVars, layoutVars, surface, pitch,
                    paletteVars, bufVars, error, result, probeHist, rowHist >>

\* the length of SDL_memcpy(row, buf, SDL_min((size_t)width, bpl))
CopyLen(w, n) == Min(SizeT(w), n)

CopyRow ==
    /\ pc = "pixels"
    /\ src_bits > 4
    /\ src_bits = 8
    /\ LET n == CopyLen(width, bpl)
       IN  /\ pixels' = [pixels EXCEPT ![y + 1] =
                            [c \in 1..Len(@) |-> IF c <= n THEN BufAt(c - 1) ELSE @[c]]]
           /\ reads' = [c \in 1..n |-> c - 1]
           /\ writes' = [c \in 1..n |-> <<0, c - 1>>]
    /\ NextRow
    /\ UNCHANGED << streamVars, pos, headerVars, layoutVars, surface, pitch,
                    paletteVars, bufVars, error, result, probeHist, rowHist >>

\* (variant: a bounds test that looks at the destination only)
OutOfBounds_DstOnly(idx, off) == off >= pitch

\* the bounds test of the de-interlace: (innerSrc + x) >= end1 || dst >= end2
OutOfBounds(idx, off) == idx >= bpl \/ off >= pitch

\* the de-interlace from its t-th (plane, x) pass on; it stops at the first
\* pass whose bounds test fails
RECURSIVE DeinterlaceFrom(_, _)
DeinterlaceFrom(t, st) ==
    IF t >= pcxh.NPlanes * width THEN st
    ELSE LET plane == t \div width
             x     == t % width
             idx   == plane * pcxh.BytesPerLine + x
             off   == plane + x * pcxh.NPlanes
         IN  IF OutOfBounds(idx, off)
             THEN [st EXCEPT !.bad = TRUE]
             ELSE DeinterlaceFrom(t + 1,
                     [ row    |-> RowPut(st.row, off, BufAt(idx)),
                       bad    |-> FALSE,
                       reads  |-> Append(st.reads, idx),
                       writes |-> Append(st.writes, <<plane, off>>) ])

Deinterlace ==
    /\ pc = "pixels"
    /\ src_bits > 4
    /\ src_bits # 8
    /\ src_bits = 24
    /\ LET st == DeinterlaceFrom(0, [ row |-> pixels[y + 1], bad |-> FALSE,
                                      reads |-> <<>>, writes |-> <<>> ])
       IN  /\ pixels' = [pixels EXCEPT ![y + 1] = st.row]
           /\ reads' = st.reads
           /\ writes' = st.writes
           /\ IF st.bad
              THEN /\ error' = "decoding out of bounds (corrupt?)"
                   /\ pc' = "done"
                   /\ UNCHANGED << y, i, runVars >>
              ELSE /\ error' = error
                   /\ NextRow
    /\ UNCHANGED << streamVars, pos, headerVars, layoutVars, surface, pitch,
                    paletteVars, bufVars, result, probeHist, rowHist >>

(***************************************************************************)
(* The palette of an 8-bit surface.                                        *)
(***************************************************************************)
\* SDL_CreateSurfacePalette (256 white entries for an INDEX8 surface, or no
\* memory) and nc = min(1 << src_bits, palette->ncolors)
CreatePalette ==
    /\ pc = "palette"
    /\ \E ok \in BOOLEAN :
         IF ok
         THEN /\ ncolors' = Min(Pow2(src_bits), 256)
              /\ colors' = Rep(256, <<255, 255, 255>>)
              /\ pc' = IF src_bits = 8 THEN "find" ELSE "embedded"
              /\ error' = error
         ELSE /\ error' = "Couldn't create palette"
              /\ pc' = "done"
              /\ UNCHANGED paletteVars
    /\ UNCHANGED << streamVars, pos, headerVars, layoutVars, surfaceVars,
                    bufVars, y, i, runVars, result, probeHist, rowHist,
                    accessHist >>

\* the offsets at or after p that hold the marker byte
MarkersFrom(s, p) == { k \in p..(Len(s) - 1) : s[k + 1] = PaletteMarker }

\* the cursor after the loop "do { read pch } while ( pch != 12 )": behind
\* the first marker, or 768 bytes before the end when the stream runs out
PaletteCursor(s, p) ==
    IF MarkersFrom(s, p) # {}
    THEN (CHOOSE k \in MarkersFrom(s, p) : \A m \in MarkersFrom(s, p) : k <= m) + 1
    ELSE SeekEnd(s, 0 - ColormapBytes)

FindPalette ==
    /\ pc = "find"
    /\ pos' = PaletteCursor(stream, pos)
    /\ pc' = "colormap"
    /\ UNCHANGED << streamVars, headerVars, layoutVars, surfaceVars,
                    paletteVars, bufVars, y, i, runVars, error, result,
                    probeHist, rowHist, accessHist >>

\* entry k (from 0) of a palette stored as consecutive r, g, b bytes
Triple(bytes, k) == << bytes[3 * k + 1], bytes[3 * k + 2], bytes[3 * k + 3] >>

ReadColormap ==
    /\ pc = "colormap"
    /\ LET r == ReadIO(stream, pos, ColormapBytes)
       IN  /\ pos' = r.pos
           /\ pc' = "done"
           /\ IF Len(r.bytes) # ColormapBytes
              THEN /\ error' = "file truncated"
                   /\ UNCHANGED paletteVars
              ELSE /\ colors' = [k \in 1..256 |-> Triple(r.bytes, k - 1)]
                   /\ UNCHANGED << ncolors, error >>
    /\ UNCHANGED << streamVars, headerVars, layoutVars, surfaceVars, bufVars,
                    y, i, runVars, result, probeHist, rowHist, accessHist >>

\* fewer than 8 bits: the first nc entries of the header's colormap
EmbeddedPalette ==
    /\ pc = "embedded"
    /\ colors' = [k \in 1..256 |->
                    IF k <= ncolors THEN Triple(pcxh.Colormap, k - 1) ELSE colors[k]]
    /\ pc' = "done"
    /\ UNCHANGED << streamVars, pos, headerVars, layoutVars, surfaceVars,
                    ncolors, bufVars, y, i, runVars, error, result, probeHist,
                    rowHist, accessHist >>

(***************************************************************************)
(* The label done: the clean-up and the return.                            *)
(***************************************************************************)
\* the cursor IMG_LoadPCX_IO leaves: it seeks back to start when error is set
ReturnCursor(s, p, st, err) == IF err # "" THEN SeekSet(s, st) ELSE p

Done ==
    /\ pc = "done"
    /\ bufp' = IF bufp = "alloc" THEN "freed" ELSE bufp
    /\ buf' = <<>>
    /\ pos' = ReturnCursor(stream, pos, start, error)
    /\ IF error # ""
       THEN /\ surface' = "NULL"
            /\ pixels' = <<>>
            /\ colors' = <<>>
            /\ ncolors' = 0
            /\ result' = "NULL"
       ELSE /\ result' = IF surface = "alloc" THEN "surface" ELSE "NULL"
            /\ UNCHANGED << surface, pixels, colors, ncolors >>
    /\ pc' = "returned"
    /\ probePos' = pos'
    /\ UNCHANGED << streamVars, headerVars, layoutVars, pitch, bpl, y, i,
                    runVars, error, probes, rowHist, accessHist >>

(***************************************************************************)
(* The streams explored.  A stream is described by the fields of its       *)
(* header, the length hdrLen to which the header is cut, the bytes `data`  *)
(* that follow it and the number `pre` of bytes that precede it (the       *)
(* cursor starts behind those).                                            *)
(***************************************************************************)
Ramp48 == [k \in 1..48 |-> (k * 5) % 256]

Base ==
    [ pre |-> 0, hdrLen |-> HeaderSize, man |-> ZSoft_Manufacturer,
      ver |-> PC_Paintbrush_Version, enc |-> 0, bpp |-> 8, np |-> 1,
      xmin |-> 0, ymin |-> 0, xmax |-> 0, ymax |-> 0, bytesPerLine |-> 1,
      cmap |-> Ramp48, data |-> <<>> ]

StreamOf(d) == Rep(d.pre, 0) \o SubSeq(MkHeader(d), 1, d.hdrLen) \o d.data

\* n bytes of row data of pattern m
RowData(m, n) ==
    [k \in 1..n |->
        CASE m = 1 -> 128
          [] m = 2 -> (k * 37 + 91) % 256
          [] OTHER -> 255]

\* a 768-byte palette block without the marker byte, and one holding it
PaletteBlock(withMarker) ==
    [k \in 1..ColormapBytes |->
        IF withMarker /\ k = 5 THEN PaletteMarker ELSE ((k * 7) % 200) + 20]

\* what may follow the rows of an 8-bit image
Tails ==
    { <<>>,
      PaletteBlock(FALSE),
      PaletteBlock(TRUE),
      <<PaletteMarker>> \o PaletteBlock(FALSE),
      <<PaletteMarker>> \o PaletteBlock(TRUE),
      <<PaletteMarker>> \o SubSeq(PaletteBlock(FALSE), 1, ColormapBytes - 1),
      <<0, PaletteMarker>> \o PaletteBlock(FALSE) \o <<0>> }

Widths == {1, 3, 8, 9}

\* headers cut short, foreign headers, streams that start behind a prefix
ProbeInputs ==
    { [Base EXCEPT !.pre = p, !.hdrLen = n, !.man = m, !.ver = v, !.enc = e] :
        p \in {0, 3}, n \in {0, 1, HeaderSize - 1, HeaderSize},
        m \in {ZSoft_Manufacturer, 9}, v \in {PC_Paintbrush_Version, 4},
        e \in {0, 1, 2} }

\* every (BitsPerPixel, NPlanes) pair of a grid, with row data for one row
FormatInputs ==
    { [Base EXCEPT !.bpp = b, !.np = n, !.enc = e, !.data = RowData(1, 5)] :
        b \in {0, 1, 2, 4, 8}, n \in 0..5, e \in {0, 1} }

\* sizes that are zero or negative, and a box that does not start at 0
GeometryInputs ==
    { [Base EXCEPT !.bpp = l[1], !.np = l[2], !.xmin = x0, !.xmax = x1,
                   !.ymin = 1, !.ymax = y1, !.pre = 3,
                   !.data = RowData(2, 6)] :
        l \in {<<1, 1>>, <<8, 1>>, <<8, 3>>}, x0 \in {0, 2}, x1 \in {-2, -1, 0, 2},
        y1 \in {-1, 0, 1} }

\* planar images, raw, whole and cut short
PlanarInputs ==
    { [Base EXCEPT !.bpp = 1, !.np = n, !.xmax = w - 1, !.ymax = h - 1,
                   !.bytesPerLine = b,
                   !.data = SubSeq(RowData(m, h * n * b), 1, h * n * b - c)] :
        n \in 1..4, w \in Widths, h \in 1..MaxHeight, b \in 0..MaxPlaneBytes,
        m \in {1, 2, 3}, c \in {0, 1} }

\* 24-bit images, raw, with BytesPerLine below, at and above the width
RgbInputs ==
    { [Base EXCEPT !.bpp = 8, !.np = 3, !.xmax = w - 1, !.ymax = h - 1,
                   !.bytesPerLine = b,
                   !.data = SubSeq(RowData(m, h * 3 * Max(b, 0)), 1,
                                   h * 3 * Max(b, 0) - c)] :
        w \in 1..3, h \in 1..MaxHeight, b \in -1..(MaxPlaneBytes + 1),
        m \in {2, 3}, c \in {0, 1} }

\* 8-bit images, raw, followed by each of the tails
IndexedInputs ==
    { [Base EXCEPT !.bpp = 8, !.np = 1, !.xmax = w - 1, !.ymax = h - 1,
                   !.bytesPerLine = b, !.pre = p,
                   !.data = RowData(2, h * b) \o t] :
        w \in 1..3, h \in 1..MaxHeight, b \in 0..MaxPlaneBytes, p \in {0},
        t \in Tails }

\* 8-bit images whose rows alone reach 768 bytes, and nothing behind them
LongRowInputs ==
    { [Base EXCEPT !.bytesPerLine = b, !.data = RowData(2, b)] :
        b \in {ColormapBytes - HeaderSize - 1, ColormapBytes - HeaderSize} }

\* run-length data: every string of at most MaxRleBytes bytes of an alphabet
\* of two literals and of run bytes of counts 0, 3 and 5
MaxRleBytes == 4
RleAlphabet == {1, 127, 192, 195, 197}
RleStrings == UNION { [1..n -> RleAlphabet] : n \in 0..MaxRleBytes }

RleInputs ==
    { [Base EXCEPT !.enc = 1, !.bpp = 1, !.np = n, !.xmax = 7, !.ymax = h - 1,
                   !.bytesPerLine = b, !.data = t] :
        n \in {1, 2}, b \in {MaxPlaneBytes}, h \in {MaxHeight}, t \in RleStrings }

Inputs ==
    ProbeInputs \cup FormatInputs \cup GeometryInputs \cup PlanarInputs
      \cup RgbInputs \cup IndexedInputs \cup LongRowInputs \cup RleInputs

(***************************************************************************)
(* The specification.                                                      *)
(***************************************************************************)
InitWith(d, s) ==
    /\ input = d
    /\ src = s
    /\ stream = IF s THEN StreamOf(d) ELSE <<>>
    /\ pos = IF s THEN d.pre ELSE 0
    /\ pc = "idle"
    /\ start = 0
    /\ pcxh = NoHeader
    /\ width = 0 /\ height = 0 /\ src_bits = 0 /\ bits = 0 /\ format = ""
    /\ surface = "NULL" /\ pitch = 0 /\ pixels = <<>>
    /\ ncolors = 0 /\ colors = <<>>
    /\ bufp = "NULL" /\ buf = <<>> /\ bpl = 0
    /\ y = 0 /\ i = 0 /\ count = 0 /\ ch = 0
    /\ error = "" /\ result = "none"
    /\ probes = <<>>
    /\ probePos = IF s THEN d.pre ELSE 0
    /\ rowPos = 0 /\ rowCount = 0 /\ rowCh = 0
    /\ reads = <<>> /\ writes = <<>>

Init == (\E d \in Inputs : InitWith(d, TRUE)) \/ InitWith(Base, FALSE)

Next ==
    \/ IMG_isPCX
    \/ LoadHeader
    \/ Classify
    \/ CreateSurface
    \/ AllocBuf
    \/ ReadRawRow
    \/ RleStep
    \/ ExpandPlanes
    \/ CopyRow
    \/ Deinterlace
    \/ CreatePalette
    \/ FindPalette
    \/ ReadColormap
    \/ EmbeddedPalette
    \/ Done

Spec == Init /\ [][Next]_vars

(***************************************************************************)
(* Reference notions the properties are stated with.  They are computed    *)
(* from the description of the input and from the bytes of the stream,     *)
(* not from the decoder's variables.                                       *)
(***************************************************************************)
IndexedPairs == { <<1, 1>>, <<1, 2>>, <<1, 3>>, <<1, 4>>, <<8, 1>> }
RgbPairs == { <<8, 3>> }
InPair == << input.bpp, input.np >>
InWidth == input.xmax - input.xmin + 1
InHeight == input.ymax - input.ymin + 1
InRowBytes == input.np * input.bytesPerLine
HeaderAvailable == src /\ Len(stream) - input.pre >= HeaderSize

\* bit b (0 = least significant) of the byte v
Bit(v, b) == (v \div Pow2(b)) % 2

\* byte k (from 0) of the stream behind the header
DataAt(k) == stream[input.pre + HeaderSize + k + 1]

\* the run-length grammar: a byte below 0xC0 stands for itself, a byte
\* c >= 0xC0 and the byte v behind it stand for c - 0xC0 copies of v
RECURSIVE RefExpand(_)
RefExpand(s) ==
    IF s = <<>> THEN <<>>
    ELSE IF s[1] < 192 THEN <<s[1]>> \o RefExpand(Tail(s))
    ELSE IF Len(s) < 2 THEN <<>>
    ELSE Rep(s[1] - 192, s[2]) \o RefExpand(SubSeq(s, 3, Len(s)))

\* the failures that are not a truncation: an allocation or a bounds error
OtherFailure ==
    \/ error \in { "unsupported PCX format", "Out of memory",
                   "Couldn't create palette",
                   "decoding out of bounds (corrupt?)" }
    \/ (error = "" /\ result = "NULL")

(***************************************************************************)
(* C1.  Whenever IMG_LoadPCX_IO, called on a non-null stream, returns no   *)
(* surface, the cursor of the stream is back where it was at entry.        *)
(***************************************************************************)
C1_FailureRestoresCursor ==
    (pc = "returned" /\ src /\ result = "NULL") => pos = start

(***************************************************************************)
(* C2.  In run-length mode the bytes decoded so far are the expansion of   *)
(* the stream bytes consumed so far under the grammar (a run byte of count *)
(* n and its literal give exactly n copies, any n in 0..63; a byte below   *)
(* 0xC0 gives itself once), and count is what is left of the last run.     *)
(***************************************************************************)
C2_RunEmitsCountCopies ==
    (pc = "scan" /\ pcxh.Encoding # 0) =>
        LET out == RefExpand(SubSeq(stream, start + HeaderSize + 1, pos))
        IN  /\ count >= 0
            /\ Len(out) = y * bpl + i + count
            /\ \A k \in 1..i : buf[k] = out[y * bpl + k]

(***************************************************************************)
(* C3.  Planar layout: in every reconstructed row, bit p of the pixel at   *)
(* column c < min(width, 8 * BytesPerLine) is bit 7 - c mod 8 of byte      *)
(* c div 8 of plane p's segment of the row's raw bytes.                    *)
(***************************************************************************)
C3_PlanarBitOrder ==
    (surface = "alloc" /\ src_bits <= 4 /\ pcxh.Encoding = 0) =>
        \A r \in 0..(y - 1) :
        \A c \in 0..(Min(width, 8 * pcxh.BytesPerLine) - 1) :
        \A p \in 0..(pcxh.NPlanes - 1) :
            Bit(pixels[r + 1][c + 1], p)
              = Bit(DataAt(r * bpl + p * pcxh.BytesPerLine + (c \div 8)), 7 - (c % 8))

(***************************************************************************)
(* C4.  A stream that is short of the header, of the rows its header       *)
(* announces, or (8-bit single plane) of a 768-byte palette block behind   *)
(* the rows makes the decoder return no surface with "file truncated".     *)
(***************************************************************************)
NoZeroRun(s) == \A k \in 1..Len(s) : s[k] # 192

TruncatedInput ==
    \/ src /\ ~HeaderAvailable
    \/ /\ HeaderAvailable
       /\ InPair \in IndexedPairs \cup RgbPairs
       /\ InWidth >= 1 /\ InHeight >= 1 /\ input.bytesPerLine >= 0
       /\ \/ input.enc = 0 /\ Len(input.data) < InHeight * InRowBytes
          \/ /\ input.enc # 0
             /\ NoZeroRun(input.data)
             /\ Len(RefExpand(input.data)) < InHeight * InRowBytes
          \/ /\ input.enc = 0
             /\ InPair = <<8, 1>>
             /\ Len(input.data) < InHeight * InRowBytes + ColormapBytes

C4_ShortStreamIsTruncated ==
    (pc = "returned" /\ TruncatedInput /\ ~OtherFailure) =>
        (result = "NULL" /\ error = "file truncated")

(***************************************************************************)
(* C5.  A valid raw-encoded image (for the 8-bit single-plane layout with  *)
(* a 768-byte palette block as the last bytes of the stream) decodes to    *)
(* the pixel values and the palette entries that were encoded.             *)
(***************************************************************************)
ValidRawInput ==
    /\ HeaderAvailable
    /\ input.enc = 0
    /\ InPair \in IndexedPairs \cup RgbPairs
    /\ InWidth >= 1 /\ InHeight >= 1
    /\ IF input.bpp = 1 THEN 8 * input.bytesPerLine >= InWidth
                        ELSE input.bytesPerLine >= InWidth
    /\ Len(input.data) = InHeight * InRowBytes
                           + (IF InPair = <<8, 1>> THEN ColormapBytes ELSE 0)

\* the value encoded for byte `off` of row r of the raster
EncodedPixel(r, off) ==
    IF input.bpp = 1
    THEN LET PlaneBit(p) ==
                 Bit(DataAt(r * InRowBytes + p * input.bytesPerLine + (off \div 8)),
                     7 - (off % 8))
         IN  (IF input.np > 0 THEN PlaneBit(0) ELSE 0)
               + (IF input.np > 1 THEN 2 * PlaneBit(1) ELSE 0)
               + (IF input.np > 2 THEN 4 * PlaneBit(2) ELSE 0)
               + (IF input.np > 3 THEN 8 * PlaneBit(3) ELSE 0)
    ELSE IF input.np = 1
    THEN DataAt(r * InRowBytes + off)
    ELSE DataAt(r * InRowBytes + (off % 3) * input.bytesPerLine + (off \div 3))

C5_RawRoundTrip ==
    (pc = "returned" /\ ValidRawInput /\ ~OtherFailure) =>
        /\ result = "surface"
        /\ \A r \in 0..(InHeight - 1) :
           \A off \in 0..(InWidth * (IF InPair \in RgbPairs THEN 3 ELSE 1) - 1) :
               pixels[r + 1][off + 1] = EncodedPixel(r, off)
        /\ InPair = <<8, 1>> =>
               \A k \in 0..255 : \A c \in 0..2 :
                   colors[k + 1][c + 1] = DataAt(InHeight * InRowBytes + 3 * k + c)

(***************************************************************************)
(* C6.  Run-length state is carried across rows: when the quota of a row   *)
(* was filled with r > 0 copies of a run left, the next row starts with    *)
(* min(r, bpl) copies of that run's literal, and no byte is read from the  *)
(* stream before they are emitted.                                         *)
(***************************************************************************)
C6_RunCarriesAcrossRows ==
    (/\ pc = "scan" /\ pcxh.Encoding # 0 /\ y >= 1
     /\ rowCount > 0 /\ i <= Min(rowCount, bpl)) =>
        /\ pos = rowPos
        /\ ch = rowCh
        /\ count = rowCount - i
        /\ \A k \in 1..i : buf[k] = rowCh

\* a run of 5 that began 2 bytes before the end of a 4-byte row has put its
\* other 3 copies into the next row, and the stream was not read since
C6_Witness ==
    /\ pc = "scan" /\ pcxh.Encoding # 0
    /\ y = 1 /\ bpl = 4 /\ i = 3
    /\ rowCount = 3 /\ count = 0
    /\ pos = rowPos /\ pos = start + HeaderSize + 4
    /\ stream[pos - 1] = 197
    /\ \A k \in 1..3 : buf[k] = stream[pos]

(***************************************************************************)
(* C7.  RGB24 layout, every header: every read of the scratch row is at an *)
(* index in [0, row_bytes) and every write at a row offset in [0, pitch),  *)
(* and a header whose width and BytesPerLine would need an access outside  *)
(* them never gets a row reconstructed.  With height >= 1 such a header    *)
(* never yields a surface, and the failure is the one of the first stage   *)
(* that fails: no error text when the surface cannot be created, "Out of   *)
(* memory" when the scratch row cannot be allocated (always so for a       *)
(* negative BytesPerLine, whose row_bytes wraps), "file truncated" when    *)
(* the bytes of the first row are not all there, and "decoding out of      *)
(* bounds" in every other case, that is whenever the de-interlace of the   *)
(* first row is reached.                                                   *)
(***************************************************************************)
\* the accesses de-interlacing InWidth pixels of 3 planes asks for
RgbNeedsOutside ==
    \E plane \in 0..2 : \E x \in 0..(InWidth - 1) :
        \/ plane * input.bytesPerLine + x >= InRowBytes
        \/ plane + 3 * x >= Pitch(InWidth, 24)

\* the first row's bytes are in the stream (raw encoding)
FirstRowAvailable == Len(input.data) >= InRowBytes

C7_Rgb24InBounds ==
    (HeaderAvailable /\ InPair \in RgbPairs /\ format = "RGB24") =>
        /\ \A k \in 1..Len(reads) : reads[k] >= 0 /\ reads[k] < InRowBytes
        /\ \A k \in 1..Len(writes) :
               writes[k][2] >= 0 /\ writes[k][2] < Pitch(InWidth, 24)
        /\ RgbNeedsOutside => y = 0
        /\ (/\ RgbNeedsOutside /\ pc = "returned" /\ InHeight >= 1
            /\ bufp # "NULL" /\ error # "file truncated") =>
               (/\ error = "decoding out of bounds (corrupt?)"
                /\ result = "NULL" /\ surface = "NULL")
        /\ (RgbNeedsOutside /\ pc = "returned" /\ InHeight >= 1) =>
               /\ result = "NULL"
               /\ error \in { "", "Out of memory", "file truncated",
                              "decoding out of bounds (corrupt?)" }
               /\ error = "" => surface = "NULL" /\ bufp = "NULL"
               /\ error = "Out of memory" => bufp = "NULL"
               /\ input.bytesPerLine < 0 => error \in { "", "Out of memory" }
               /\ (error = "file truncated" /\ input.enc = 0) => ~FirstRowAvailable
               /\ (/\ bufp # "NULL" /\ input.enc = 0 /\ FirstRowAvailable) =>
                      error = "decoding out of bounds (corrupt?)"

(***************************************************************************)
(* C7 as first stated: a header whose width and BytesPerLine would need an *)
(* access outside the ranges makes the decoder fail with "decoding out of  *)
(* bounds".  It is read here in the way most favourable to it: only        *)
(* headers with height >= 1, and leaving aside the runs in which the       *)
(* allocator gave up for a reason the header does not cause.               *)
(***************************************************************************)
AllocatorGaveUp ==
    \/ error = "" /\ result = "NULL"
    \/ error = "Out of memory" /\ input.bytesPerLine >= 0

C7_NeedsOutsideIsCorruptData ==
    (/\ HeaderAvailable /\ InPair \in RgbPairs /\ RgbNeedsOutside
     /\ InHeight >= 1 /\ pc = "returned" /\ ~AllocatorGaveUp) =>
        (error = "decoding out of bounds (corrupt?)" /\ result = "NULL")

\* a de-interlace that did some in-range accesses and then refused to go on
C7_Witness ==
    /\ pc = "returned" /\ format = "RGB24"
    /\ InWidth > input.bytesPerLine
    /\ Len(reads) > 0 /\ Len(writes) > 0
    /\ error = "decoding out of bounds (corrupt?)"
    /\ result = "NULL"

(***************************************************************************)
(* C8.  IMG_isPCX leaves the cursor where it found it, and consecutive     *)
(* calls all return the same answer: TRUE exactly for a stream that holds  *)
(* 128 bytes from the cursor on, starting with manufacturer 10, version 5  *)
(* and encoding 0 or 1 (a shorter stream gives FALSE).                     *)
(***************************************************************************)
RefIsPCX ==
    /\ src
    /\ Len(stream) - probePos >= HeaderSize
    /\ stream[probePos + 1] = 10
    /\ stream[probePos + 2] = 5
    /\ stream[probePos + 3] \in {0, 1}

C8_ProbeKeepsCursor ==
    probes # <<>> =>
        /\ pos = probePos
        /\ \A k \in 1..Len(probes) : probes[k] = RefIsPCX

\* two matching probes of a header that does not start at offset 0
C8_Witness ==
    /\ Len(probes) >= 2 /\ probes[1] /\ probes[2]
    /\ pc = "idle" /\ pos = 3

\* two probes of a stream cut inside the header
C8_WitnessShort ==
    /\ Len(probes) >= 2 /\ ~probes[1]
    /\ pc = "idle" /\ Len(stream) - pos = HeaderSize - 1

(***************************************************************************)
(* C9.  With a full header in the stream, the decoder fails with           *)
(* "unsupported PCX format" exactly for the (BitsPerPixel, NPlanes) pairs  *)
(* outside (1,1..4), (8,1), (8,3); (1,1..4) and (8,1) give an 8-bit        *)
(* indexed surface format and (8,3) the 24-bit RGB one.                    *)
(***************************************************************************)
C9_UnsupportedIffOutsidePairs ==
    (HeaderAvailable /\ pc \notin {"idle", "classify"}) =>
        /\ (error = "unsupported PCX format") <=> (InPair \notin IndexedPairs \cup RgbPairs)
        /\ InPair \in IndexedPairs => (bits = 8 /\ format = "INDEX8")
        /\ InPair \in RgbPairs => (bits = 24 /\ format = "RGB24")
        /\ (pc = "returned" /\ InPair \notin IndexedPairs \cup RgbPairs) => result = "NULL"

\* bits_per_pixel = 2, plane_count = 1 was refused
C9_Witness ==
    /\ pc = "returned" /\ InPair = <<2, 1>>
    /\ error = "unsupported PCX format" /\ result = "NULL"

(***************************************************************************)
(* C10.  Planar and 8-bit single-plane layouts: reconstructing a row reads *)
(* the scratch row below row_bytes only and writes columns below width     *)
(* only; every plane writes the columns 0 .. min(width, 8*BytesPerLine)-1  *)
(* in this order, and the 8-bit copy moves min(width, row_bytes) bytes and *)
(* leaves the rest of the row as allocated (zero).                         *)
(***************************************************************************)
PlaneColumns(p) ==
    LET ofPlane(w) == w[1] = p
        ws == SelectSeq(writes, ofPlane)
    IN  [k \in 1..Len(ws) |-> ws[k][2]]

C10_IndexedRowInBounds ==
    (HeaderAvailable /\ InPair \in IndexedPairs /\ format = "INDEX8") =>
        /\ \A k \in 1..Len(reads) : reads[k] >= 0 /\ reads[k] < InRowBytes
        /\ \A k \in 1..Len(writes) : writes[k][2] >= 0 /\ writes[k][2] < InWidth
        /\ (y >= 1 /\ input.bpp = 1) =>
              \A p \in 0..(input.np - 1) :
                  PlaneColumns(p)
                    = [k \in 1..Min(InWidth, 8 * input.bytesPerLine) |-> k - 1]
        /\ (y >= 1 /\ input.bpp = 8) =>
              /\ Len(writes) = Min(InWidth, InRowBytes)
              /\ surface = "alloc" =>
                    \A c \in (Min(InWidth, InRowBytes) + 1)..Len(pixels[y]) :
                        pixels[y][c] = 0

\* a planar row with padding bits was expanded
C10_Witness ==
    /\ format = "INDEX8" /\ input.bpp = 1 /\ input.np = 2 /\ y >= 1
    /\ InWidth = 3 /\ input.bytesPerLine = 1
    /\ Len(writes) = 6 /\ Len(reads) = 2

\* an 8-bit row wider than its row bytes was copied
C10_WitnessCopy ==
    /\ format = "INDEX8" /\ input.bpp = 8 /\ y >= 1
    /\ InWidth = 3 /\ InRowBytes = 2
    /\ Len(writes) = 2

====
